---- MODULE Spec2Model ----
(***************************************************************************)
(* mdbook-rust: rendering the body of the function named body of a Rust  *)
(* module as Markdown (packages/mdbook-rust/src/lib.rs).                   *)
(*                                                                         *)
(* Text is a sequence of one-character strings.  A syntax element is a     *)
(* record [nt, kind, text, children]: nt is "Token" or "Node" (the         *)
(* NodeOrToken enum), a token carries its text, a node its children.       *)
(***************************************************************************)
EXTENDS Integers, Sequences, FiniteSets, TLC

VARIABLES
    \* write_module of lib.rs
    source,         \* the parsed module: [errors, items]
    pc,             \* position in write_module / write_body
    item,           \* index of the module item the loop of write_module is at
    result,         \* what write_module returns: [tag, text]
    stmts,          \* the VecDeque of write_function, then the sequence write_body walks
    prefix,         \* longest_prefix as passed to write_body
    idx,            \* index in stmts of the element write_body dispatches next
    child,          \* index of the next child while a node is rendered, else 0
    broke,          \* the first loop over a node's children has hit its break
    output,         \* write_body's output buffer
    in_code_block,  \* write_body's in_code_block
    whitespace,     \* write_body's whitespace buffer
    \* the preprocessor process of main.rs
    args,           \* the command line after the executable name
    stdin,          \* the serialized book and context on standard input
    book,           \* the book preprocess holds: a sequence of book items
    page,           \* index of the book item for_each_mut is at
    errors,         \* the errors preprocess has collected
    stdout,         \* what has been written to standard output
    stderr,         \* the lines written to standard error
    status,         \* the exit status, -1 while the process runs
    hpc,            \* position in main
    \* a helper of lib.rs applied on its own
    input,          \* the arguments
    answer          \* what has been computed from them

lib == <<source, pc, item, result, stmts, prefix, idx, child, broke,
         output, in_code_block, whitespace>>
host == <<args, stdin, book, page, errors, stdout, stderr, status, hpc>>
pure == <<input, answer>>

vars == <<source, pc, item, result, stmts, prefix, idx, child, broke,
          output, in_code_block, whitespace,
          args, stdin, book, page, errors, stdout, stderr, status, hpc,
          input, answer>>

----------------------------------------------------------------------------
(* Bounds of the model *)

\* longest body (elements between the braces) the model enumerates
MaxElems == 3
\* most items in a module
MaxItems == 2
\* most newline characters in one whitespace token
MaxNewlines == 2
\* longest content of a comment the normalizer is applied to
MaxCommentLen == 4
\* longest body text that is de-indented on its own
MaxTextLen == 7
\* most candidates, and longest candidate, longest_prefix is applied to
MaxPrefixes == 3
MaxPrefixLen == 2

----------------------------------------------------------------------------
(* Characters and text *)

SP == " "
TAB == "\t"
NL == "\n"
\* the backquote character of the fence markers (the lexer rejects it in a string)
BQ == "BACKQUOTE"

RECURSIVE Flatten(_)
Flatten(ss) == IF ss = <<>> THEN <<>> ELSE Head(ss) \o Flatten(Tail(ss))

Repeat(s, n) == Flatten([i \in 1..n |-> s])

StartsWith(s, p) == Len(s) >= Len(p) /\ SubSeq(s, 1, Len(p)) = p

EndsWith(s, p) == Len(s) >= Len(p) /\ SubSeq(s, Len(s) - Len(p) + 1, Len(s)) = p

\* s.strip_prefix(p).unwrap_or(s)
strip_prefix(s, p) == IF StartsWith(s, p) THEN SubSeq(s, Len(p) + 1, Len(s)) ELSE s

\* s.strip_suffix(p).unwrap_or(s)
strip_suffix(s, p) == IF EndsWith(s, p) THEN SubSeq(s, 1, Len(s) - Len(p)) ELSE s

\* number of occurrences of character c in s
CountChar(s, c) == Cardinality({i \in 1..Len(s) : s[i] = c})

\* s.split(c): the pieces between the occurrences of c, always at least one
RECURSIVE Split(_, _)
Split(s, c) ==
    IF \A i \in 1..Len(s) : s[i] # c
    THEN <<s>>
    ELSE LET k == CHOOSE i \in 1..Len(s) : s[i] = c /\ \A j \in 1..(i - 1) : s[j] # c
         IN  <<SubSeq(s, 1, k - 1)>> \o Split(SubSeq(s, k + 1, Len(s)), c)

\* s.lines(): as split('\n'), without the empty piece after a final newline
Lines(s) ==
    LET parts == Split(s, NL)
    IN  IF parts[Len(parts)] = <<>> THEN SubSeq(parts, 1, Len(parts) - 1) ELSE parts

\* pieces.join(sep)
RECURSIVE Join(_, _)
Join(pieces, sep) ==
    IF pieces = <<>> THEN <<>>
    ELSE IF Len(pieces) = 1 THEN pieces[1]
    ELSE pieces[1] \o sep \o Join(Tail(pieces), sep)

----------------------------------------------------------------------------
(* Syntax elements *)

Token(kind, text) == [nt |-> "Token", kind |-> kind, text |-> text, children |-> <<>>]
Node(kind, children) == [nt |-> "Node", kind |-> kind, text |-> <<>>, children |-> children]

\* element.to_string(): the source text the element covers
RECURSIVE to_string(_)
to_string(e) ==
    IF e.nt = "Token" THEN e.text
    ELSE Flatten([i \in 1..Len(e.children) |-> to_string(e.children[i])])

\* ast::Whitespace::can_cast(token.kind())
is_whitespace(e) == e.nt = "Token" /\ e.kind = "WHITESPACE"

\* ast::Comment::cast(token) succeeds
is_comment(e) == e.nt = "Token" /\ e.kind = "COMMENT"

\* comment.prefix(): the marker the comment starts with
comment_prefix(text) ==
    IF StartsWith(text, <<"/", "*", "*", "/">>) THEN <<"/", "*", "*", "/">>
    ELSE IF StartsWith(text, <<"/", "/", "/", "/">>) THEN <<"/", "/", "/", "/">>
    ELSE IF StartsWith(text, <<"/", "/", "/">>) THEN <<"/", "/", "/">>
    ELSE IF StartsWith(text, <<"/", "/", "!">>) THEN <<"/", "/", "!">>
    ELSE IF StartsWith(text, <<"/", "*", "*">>) THEN <<"/", "*", "*">>
    ELSE IF StartsWith(text, <<"/", "*", "!">>) THEN <<"/", "*", "!">>
    ELSE IF StartsWith(text, <<"/", "/">>) THEN <<"/", "/">>
    ELSE <<"/", "*">>

\* is_doc taking every line comment for a doc comment
is_doc_any_line_comment(text) == text[2] = "/"

\* comment.is_doc()
is_doc(text) ==
    comment_prefix(text) \in {<<"/", "/", "/">>, <<"/", "/", "!">>,
                              <<"/", "*", "*">>, <<"/", "*", "!">>}

\* comment.kind().shape
comment_shape(text) == IF text[2] = "*" THEN "Block" ELSE "Line"

----------------------------------------------------------------------------
(* The pure helpers of lib.rs *)

IsWs(c) == c = SP \/ c = TAB

\* line.split_once(non_ws).map(|(prefix, _)| prefix): [some, val]
whitespace_prefix(line) ==
    IF \A i \in 1..Len(line) : IsWs(line[i])
    THEN [some |-> FALSE, val |-> <<>>]
    ELSE LET k == CHOOSE i \in 1..Len(line) :
                      ~IsWs(line[i]) /\ \A j \in 1..(i - 1) : IsWs(line[j])
         IN  [some |-> TRUE, val |-> SubSeq(line, 1, k - 1)]

\* lines.filter_map(whitespace_prefix)
RECURSIVE filter_map_whitespace_prefix(_)
filter_map_whitespace_prefix(lines) ==
    IF lines = <<>> THEN <<>>
    ELSE LET p == whitespace_prefix(Head(lines))
         IN  (IF p.some THEN <<p.val>> ELSE <<>>) \o filter_map_whitespace_prefix(Tail(lines))

Min(a, b) == IF a <= b THEN a ELSE b

\* common_prefix cutting at the shorter length without comparing the characters
common_prefix_by_length(longest, p) == SubSeq(longest, 1, Min(Len(longest), Len(p)))

\* one round of the loop of longest_prefix: longest cut where it first differs from p
common_prefix(longest, p) ==
    LET n == Min(Len(longest), Len(p))
        differ == {i \in 1..n : longest[i] # p[i]}
        position == IF differ = {} THEN n
                    ELSE (CHOOSE i \in differ : \A j \in differ : i <= j) - 1
    IN  SubSeq(longest, 1, position)

RECURSIVE fold_prefixes(_, _)
fold_prefixes(longest, prefixes) ==
    IF prefixes = <<>> THEN longest
    ELSE fold_prefixes(common_prefix(longest, Head(prefixes)), Tail(prefixes))

\* longest_prefix returning one level of indentation, not all that is shared
longest_prefix_one_level(prefixes) ==
    IF prefixes = <<>> THEN <<>>
    ELSE LET shared == fold_prefixes(Head(prefixes), Tail(prefixes))
         IN  SubSeq(shared, 1, Min(1, Len(shared)))

longest_prefix(prefixes) ==
    IF prefixes = <<>> THEN <<>> ELSE fold_prefixes(Head(prefixes), Tail(prefixes))

write_lines(text, p) ==
    LET lines == Split(text, NL)
    IN  Join([i \in 1..Len(lines) |-> strip_prefix(lines[i], p)], <<NL>>)

\* write_comment trimming every leading space of the first line
RECURSIVE trim_start_spaces(_)
trim_start_spaces(line) ==
    IF line # <<>> /\ Head(line) = SP THEN trim_start_spaces(Tail(line)) ELSE line

write_comment_trimming(text, p) ==
    LET comment_suffix == SubSeq(text, Len(comment_prefix(text)) + 1, Len(text))
        comment_text == IF comment_shape(text) = "Line" THEN comment_suffix
                        ELSE strip_suffix(comment_suffix, <<"*", "/">>)
        lines == Split(comment_text, NL)
    IN  trim_start_spaces(lines[1]) \o
        Flatten([i \in 1..(Len(lines) - 1) |-> <<NL>> \o strip_prefix(lines[i + 1], p)])

write_comment(text, p) ==
    LET comment_suffix == SubSeq(text, Len(comment_prefix(text)) + 1, Len(text))
        comment_text == IF comment_shape(text) = "Line" THEN comment_suffix
                        ELSE strip_suffix(comment_suffix, <<"*", "/">>)
        lines == Split(comment_text, NL)
        first_line == strip_prefix(lines[1], <<SP>>)
    IN  first_line \o
        Flatten([i \in 1..(Len(lines) - 1) |-> <<NL>> \o strip_prefix(lines[i + 1], p)])

\* the three fence texts of lib.rs
OpenFence == <<NL, NL, BQ, BQ, BQ, "r", "u", "s", "t", ",", "i", "g", "n", "o", "r", "e", NL>>
CloseFence == <<NL, BQ, BQ, BQ, NL, NL>>
FinalFence == <<NL, BQ, BQ, BQ>>

\* ensure_in_markdown emitting the pending whitespace before the closing fence
ensure_in_markdown_keeps_whitespace(in_code, ws) ==
    [text |-> IF in_code THEN ws \o CloseFence ELSE ws, in_code_block |-> FALSE]

\* ensure_in_markdown leaving the flag as it finds it
ensure_in_markdown_keeps_flag(in_code, ws) ==
    [text |-> IF in_code THEN CloseFence ELSE ws, in_code_block |-> in_code]

\* ensure_in_markdown: the text it returns, and the flag it leaves
ensure_in_markdown(in_code, ws) ==
    [text |-> IF in_code THEN CloseFence ELSE ws, in_code_block |-> FALSE]

\* ensure_in_code_block emitting the pending whitespace before the opening fence
ensure_in_code_block_keeps_whitespace(in_code, ws) ==
    [text |-> IF in_code THEN ws ELSE ws \o OpenFence, in_code_block |-> TRUE]

\* ensure_in_code_block opening a fence without looking at the flag
ensure_in_code_block_always_opens(in_code, ws) ==
    [text |-> OpenFence, in_code_block |-> TRUE]

\* ensure_in_code_block: the text it returns, and the flag it leaves
ensure_in_code_block(in_code, ws) ==
    [text |-> IF in_code THEN ws ELSE OpenFence, in_code_block |-> TRUE]

\* The render state st is [output, in_code_block, whitespace].

\* write_token, plain comment: prose
write_plain_comment(st, token, p) ==
    LET e == ensure_in_markdown(st.in_code_block, st.whitespace)
    IN  [output |-> st.output \o e.text \o write_comment(token.text, p),
         in_code_block |-> e.in_code_block,
         whitespace |-> <<>>]

\* write_token, doc comment: code
write_doc_comment(st, token, p) ==
    LET e == ensure_in_code_block(st.in_code_block, st.whitespace)
    IN  [output |-> st.output \o e.text \o write_lines(token.text, p),
         in_code_block |-> e.in_code_block,
         whitespace |-> <<>>]

\* the whitespace branch keeping one newline for any number of them
write_whitespace_collapsing(st, token) ==
    [output |-> st.output,
     in_code_block |-> st.in_code_block,
     whitespace |-> IF CountChar(token.text, NL) > 0 THEN <<NL>> ELSE <<>>]

\* write_token, whitespace: buffered as its newlines
write_whitespace(st, token) ==
    [output |-> st.output,
     in_code_block |-> st.in_code_block,
     whitespace |-> Repeat(<<NL>>, CountChar(token.text, NL))]

\* write_token, any other token
write_other_token(st, token, p) ==
    [output |-> st.output \o st.whitespace \o write_lines(token.text, p),
     in_code_block |-> st.in_code_block,
     whitespace |-> <<>>]

\* write_token sending doc comments to the prose branch too
write_token_doc_as_prose(st, token, p) ==
    IF is_comment(token) THEN write_plain_comment(st, token, p)
    ELSE IF is_whitespace(token) THEN write_whitespace(st, token)
    ELSE write_other_token(st, token, p)

write_token(st, token, p) ==
    IF is_comment(token) THEN
        IF is_doc(token.text) THEN write_doc_comment(st, token, p)
        ELSE write_plain_comment(st, token, p)
    ELSE IF is_whitespace(token) THEN write_whitespace(st, token)
    ELSE write_other_token(st, token, p)

\* expect_kind accepting a token of any kind
expect_kind_any_token(expected, present, actual) ==
    present /\ actual.nt = "Token"

\* expect_kind(expected, actual): actual is the popped element, or absent
expect_kind(expected, present, actual) ==
    present /\ actual.nt = "Token" /\ actual.kind = expected

\* is_named accepting any named item
is_named_any(it, name) == it.has_name

\* is_named(item, name)
is_named(it, name) == it.has_name /\ it.name = name

----------------------------------------------------------------------------
(* The inputs: what the parser hands over *)

\* a whitespace token with n newlines: one space, or n newlines and the indentation
Whitespace(n) ==
    Token("WHITESPACE", IF n = 0 THEN <<SP>> ELSE Repeat(<<NL>>, n) \o <<SP, SP>>)

Whitespaces == {Whitespace(n) : n \in 0..MaxNewlines}

Comment(text) == Token("COMMENT", text)

\* "// a", "//", "/*a\n  */" are plain comments, "/// d" is a doc comment
PlainLine == Comment(<<"/", "/", SP, "a">>)
EmptyLine == Comment(<<"/", "/">>)
PlainBlock == Comment(<<"/", "*", "a", NL, SP, SP, "*", "/">>)
DocLine == Comment(<<"/", "/", "/", SP, "d">>)

Comments == {PlainLine, EmptyLine, PlainBlock, DocLine}

\* a stray ";" of a block is a token of the statement list
Semicolon == Token("SEMICOLON", <<";">>)

\* the statement "x;"
ExprStmt ==
    Node("EXPR_STMT", <<Node("PATH_EXPR", <<Token("IDENT", <<"x">>)>>), Semicolon>>)

\* the children of "fn f()/*c*/{\n    // i\n  }" from the fn keyword on
FnCode ==
    <<Token("FN_KW", <<"f", "n">>),
      Whitespace(0),
      Node("NAME", <<Token("IDENT", <<"f">>)>>),
      Node("PARAM_LIST", <<Token("L_PAREN", <<"(">>), Token("R_PAREN", <<")">>)>>),
      Comment(<<"/", "*", "c", "*", "/">>),
      Node("BLOCK_EXPR", <<Node("STMT_LIST",
          <<Token("L_CURLY", <<"{">>),
            Token("WHITESPACE", <<NL, SP, SP, SP, SP>>),
            Comment(<<"/", "/", SP, "i">>),
            Whitespace(1),
            Token("R_CURLY", <<"}">>)>>)>>)>>

\* a nested function, bare or with the comments the parser attaches to it
FnBare == Node("FN", FnCode)
FnPlain == Node("FN", <<Comment(<<"/", "/", SP, "p">>), Whitespace(1)>> \o FnCode)
FnDoc == Node("FN", <<DocLine, Whitespace(1)>> \o FnCode)
FnDocPlain ==
    Node("FN", <<DocLine, Whitespace(1), Comment(<<"/", "/", SP, "p">>), Whitespace(1)>> \o FnCode)

Nodes == {ExprStmt, FnBare, FnPlain, FnDoc, FnDocPlain}

Elements == Whitespaces \cup Comments \cup {Semicolon} \cup Nodes

NewlinesOf(e) == CountChar(to_string(e), NL)

\* the element sequences the lexer and parser can produce between the braces:
\* whitespace tokens are never adjacent, a line comment runs to the end of its
\* line, and a comment next to a nested function is attached to that function
WellFormed(b) ==
    \A i \in 1..Len(b) :
        /\ is_whitespace(b[i]) /\ i > 1 => ~is_whitespace(b[i - 1])
        /\ is_comment(b[i]) /\ comment_shape(b[i].text) = "Line" =>
              i < Len(b) /\ is_whitespace(b[i + 1]) /\ NewlinesOf(b[i + 1]) >= 1
        /\ b[i].nt = "Node" /\ b[i].kind = "FN" /\ i > 1 =>
              /\ ~is_comment(b[i - 1])
              /\ (i > 2 /\ is_whitespace(b[i - 1]) /\ is_comment(b[i - 2])) =>
                     NewlinesOf(b[i - 1]) >= 2

\* a body: at most MaxElems elements, after the whitespace that may follow the brace
Bodies ==
    {b \in UNION {[1..n -> Elements] : n \in 0..MaxElems} : WellFormed(b)}
    \cup {<<Whitespace(1)>> \o b :
            b \in {c \in UNION {[1..n -> Elements] : n \in 1..MaxElems} :
                      WellFormed(<<Whitespace(1)>> \o c)}}

\* the children of a function's statement list: the body between its braces
StmtList(b) == <<Token("L_CURLY", <<"{">>)>> \o b \o <<Token("R_CURLY", <<"}">>)>>

\* a module item: a function (with or without a block) or another item
FnItem(name, b) ==
    [kind |-> "FN", has_name |-> TRUE, name |-> name, has_body |-> TRUE, stmt_list |-> StmtList(b)]
FnDecl(name) ==
    [kind |-> "FN", has_name |-> TRUE, name |-> name, has_body |-> FALSE, stmt_list |-> <<>>]
StructItem(name) ==
    [kind |-> "STRUCT", has_name |-> TRUE, name |-> name, has_body |-> FALSE, stmt_list |-> <<>>]

\* the items of the modules with several items
Items ==
    {FnItem("body", <<Whitespace(1), PlainLine, Whitespace(1)>>),
     FnItem("body", <<ExprStmt>>),
     FnItem("main", <<ExprStmt>>),
     FnItem("Body", <<PlainBlock>>),
     FnDecl("body"),
     StructItem("body")}

Modules ==
    {[errors |-> FALSE, items |-> <<FnItem("body", b)>>] : b \in Bodies}
    \cup {[errors |-> e, items |-> its] :
            e \in BOOLEAN, its \in UNION {[1..n -> Items] : n \in 0..MaxItems}}

----------------------------------------------------------------------------
(* write_module, write_function and write_body, one step at a time *)

Pending == [tag |-> "Pending", text |-> <<>>]
None == [tag |-> "None", text |-> <<>>]
Some(text) == [tag |-> "Some", text |-> text]
Err(message) == [tag |-> "Err", text |-> <<message>>]

\* the preprocessor process is not running
HostIdle ==
    /\ args = <<>>
    /\ stdin = <<>>
    /\ book = <<>>
    /\ page = 1
    /\ errors = <<>>
    /\ stdout = <<>>
    /\ stderr = <<>>
    /\ status = -1
    /\ hpc = "idle"

\* no helper is applied on its own
PureIdle ==
    /\ input = <<>>
    /\ answer = <<>>

Init ==
    /\ HostIdle
    /\ PureIdle
    /\ source \in Modules
    /\ pc = "parse"
    /\ item = 1
    /\ result = Pending
    /\ stmts = <<>>
    /\ prefix = <<>>
    /\ idx = 1
    /\ child = 1
    /\ broke = FALSE
    /\ output = <<>>
    /\ in_code_block = FALSE
    /\ whitespace = <<>>

render == <<stmts, prefix, idx, child, broke, output, in_code_block, whitespace>>

\* parse_module: the parse errors, joined, are the error of write_module
parse_module ==
    /\ pc = "parse"
    /\ IF source.errors
       THEN /\ result' = Err("parse errors")
            /\ pc' = "done"
       ELSE /\ pc' = "items"
            /\ UNCHANGED result
    /\ UNCHANGED <<source, item, render>>
    /\ UNCHANGED <<host, pure>>

IsBodyFn(it) == it.kind = "FN" /\ is_named(it, "body")

\* an item that is no function named body is passed over
skip_item ==
    /\ pc = "items"
    /\ item <= Len(source.items)
    /\ ~IsBodyFn(source.items[item])
    /\ item' = item + 1
    /\ UNCHANGED <<source, pc, result, render>>
    /\ UNCHANGED <<host, pure>>

\* the loop over the items ends without a return
no_body ==
    /\ pc = "items"
    /\ item > Len(source.items)
    /\ result' = None
    /\ pc' = "done"
    /\ UNCHANGED <<source, item, render>>
    /\ UNCHANGED <<host, pure>>

\* the body text and the prefix write_function computes from the deque
body_text(deque) == Flatten([i \in 1..Len(deque) |-> to_string(deque[i])])
ws_prefixes(deque) == filter_map_whitespace_prefix(Lines(body_text(deque)))

\* the deque with a leading whitespace token popped
pop_front_whitespace(deque) ==
    IF deque # <<>> /\ is_whitespace(deque[1]) THEN Tail(deque) ELSE deque

\* write_function on the function named body the loop is at
write_function ==
    /\ pc = "items"
    /\ item <= Len(source.items)
    /\ IsBodyFn(source.items[item])
    /\ LET function == source.items[item]
           raw == function.stmt_list
           n == Len(raw)
           deque == SubSeq(raw, 2, n - 1)
       IN  IF ~function.has_body
           THEN /\ item' = item + 1
                /\ UNCHANGED <<pc, result, render>>
           ELSE IF ~(expect_kind("L_CURLY", n >= 1, raw[1])
                     /\ expect_kind("R_CURLY", n >= 2, raw[n]))
           THEN /\ result' = Err("Unexpected token")
                /\ pc' = "done"
                /\ UNCHANGED <<item, render>>
           ELSE /\ stmts' = pop_front_whitespace(deque)
                /\ prefix' = longest_prefix(ws_prefixes(deque))
                /\ pc' = "body"
                /\ idx' = 1
                /\ child' = 1
                /\ broke' = FALSE
                /\ output' = <<>>
                /\ in_code_block' = FALSE
                /\ whitespace' = <<>>
                /\ UNCHANGED <<item, result>>
    /\ UNCHANGED source
    /\ UNCHANGED <<host, pure>>

State == [output |-> output, in_code_block |-> in_code_block, whitespace |-> whitespace]

Store(st) ==
    /\ output' = st.output
    /\ in_code_block' = st.in_code_block
    /\ whitespace' = st.whitespace

AtElement == pc = "body" /\ idx <= Len(stmts)
AtNode == AtElement /\ stmts[idx].nt = "Node"
AtChild == AtNode /\ child <= Len(stmts[idx].children)
IsTrivia(e) == e.kind = "COMMENT" \/ e.kind = "WHITESPACE"

\* write_node_or_token on a token of the body
top_token ==
    /\ AtElement
    /\ stmts[idx].nt = "Token"
    /\ Store(write_token(State, stmts[idx], prefix))
    /\ idx' = idx + 1
    /\ UNCHANGED <<source, pc, item, result, stmts, prefix, child, broke>>
    /\ UNCHANGED <<host, pure>>

\* first loop over the children of a node: a comment or a whitespace token
node_trivia ==
    /\ AtChild
    /\ ~broke
    /\ IsTrivia(stmts[idx].children[child])
    /\ Store(write_token(State, stmts[idx].children[child], prefix))
    /\ child' = child + 1
    /\ UNCHANGED <<source, pc, item, result, stmts, prefix, idx, broke>>
    /\ UNCHANGED <<host, pure>>

\* first loop over the children of a node: the first other child, and the break
node_code ==
    /\ AtChild
    /\ ~broke
    /\ ~IsTrivia(stmts[idx].children[child])
    /\ LET e == ensure_in_code_block(in_code_block, whitespace)
       IN  /\ output' = output \o e.text
                               \o write_lines(to_string(stmts[idx].children[child]), prefix)
           /\ in_code_block' = e.in_code_block
    /\ broke' = TRUE
    /\ child' = child + 1
    /\ UNCHANGED <<source, pc, item, result, stmts, prefix, idx, whitespace>>
    /\ UNCHANGED <<host, pure>>

\* second loop over the children of a node, still classifying comments and whitespace
node_rest_classifying ==
    /\ AtChild
    /\ broke
    /\ IF IsTrivia(stmts[idx].children[child])
       THEN Store(write_token(State, stmts[idx].children[child], prefix))
       ELSE /\ output' = output \o write_lines(to_string(stmts[idx].children[child]), prefix)
            /\ UNCHANGED <<in_code_block, whitespace>>
    /\ child' = child + 1
    /\ UNCHANGED <<source, pc, item, result, stmts, prefix, idx, broke>>
    /\ UNCHANGED <<host, pure>>

\* second loop over the children of a node: every remaining child
node_rest ==
    /\ AtChild
    /\ broke
    /\ output' = output \o write_lines(to_string(stmts[idx].children[child]), prefix)
    /\ child' = child + 1
    /\ UNCHANGED <<source, pc, item, result, stmts, prefix, idx, broke,
                   in_code_block, whitespace>>
    /\ UNCHANGED <<host, pure>>

\* the children are exhausted: the whitespace buffer is cleared
node_end ==
    /\ AtNode
    /\ child > Len(stmts[idx].children)
    /\ whitespace' = <<>>
    /\ idx' = idx + 1
    /\ child' = 1
    /\ broke' = FALSE
    /\ UNCHANGED <<source, pc, item, result, stmts, prefix, output, in_code_block>>
    /\ UNCHANGED <<host, pure>>

\* the end of write_body closing a fence whether or not one is open
finish_always_closes ==
    /\ pc = "body"
    /\ idx > Len(stmts)
    /\ output' = output \o FinalFence \o <<NL>>
    /\ result' = Some(output')
    /\ pc' = "done"
    /\ UNCHANGED <<source, item, stmts, prefix, idx, child, broke, in_code_block, whitespace>>
    /\ UNCHANGED <<host, pure>>

\* the end of write_body without the final newline
finish_without_newline ==
    /\ pc = "body"
    /\ idx > Len(stmts)
    /\ output' = output \o (IF in_code_block THEN FinalFence ELSE <<>>)
    /\ result' = Some(output')
    /\ pc' = "done"
    /\ UNCHANGED <<source, item, stmts, prefix, idx, child, broke, in_code_block, whitespace>>
    /\ UNCHANGED <<host, pure>>

\* the end of write_body, and the return of write_module
finish ==
    /\ pc = "body"
    /\ idx > Len(stmts)
    /\ output' = output \o (IF in_code_block THEN FinalFence ELSE <<>>) \o <<NL>>
    /\ result' = Some(output')
    /\ pc' = "done"
    /\ UNCHANGED <<source, item, stmts, prefix, idx, child, broke, in_code_block, whitespace>>
    /\ UNCHANGED <<host, pure>>

Next ==
    \/ parse_module
    \/ skip_item
    \/ no_body
    \/ write_function
    \/ top_token
    \/ node_trivia
    \/ node_code
    \/ node_rest
    \/ node_end
    \/ finish

Spec == Init /\ [][Next]_vars

----------------------------------------------------------------------------
(* The helpers of lib.rs, each applied on its own to every input of a bounded set *)

\* the texts of length k over an alphabet
Strings(alphabet, k) == [1..k -> alphabet]

\* plain comments: "//" and content, "/*" and content and "*/"
LineComment(c) == <<"/", "/">> \o c
BlockComment(c) == <<"/", "*">> \o c \o <<"*", "/">>
Prefixes == {<<>>, <<SP>>, <<SP, SP>>, <<TAB>>}

\* the leading space/tab runs longest_prefix is handed
Candidates == UNION {Strings({SP, TAB}, k) : k \in 0..MaxPrefixLen}

Call(fn, text, p, prefixes) == [fn |-> fn, text |-> text, prefix |-> p, prefixes |-> prefixes]

\* write_module is not running
LibIdle ==
    /\ source = [errors |-> FALSE, items |-> <<>>]
    /\ pc = "idle"
    /\ item = 1
    /\ result = Pending
    /\ stmts = <<>>
    /\ prefix = <<>>
    /\ idx = 1
    /\ child = 1
    /\ broke = FALSE
    /\ output = <<>>
    /\ in_code_block = FALSE
    /\ whitespace = <<>>

InitPure ==
    /\ HostIdle
    /\ LibIdle
    /\ answer = <<>>
    /\ \/ \E k \in 0..MaxCommentLen, p \in Prefixes :
            \/ \E c \in Strings({SP, TAB, "a"}, k) :
                   input = Call("write_comment", LineComment(c), p, <<>>)
            \/ \E c \in Strings({SP, TAB, "a", NL}, k) :
                   input = Call("write_comment", BlockComment(c), p, <<>>)
       \/ \E n \in 0..MaxPrefixes : \E ps \in [1..n -> Candidates] :
            input = Call("longest_prefix", <<>>, <<>>, ps)
       \/ \E k \in 0..MaxTextLen : \E t \in Strings({SP, TAB, "x", NL}, k) :
            input = Call("de_indent", t, <<>>, <<>>)

\* write_comment on a comment and a prefix
apply_write_comment ==
    /\ input.fn = "write_comment"
    /\ answer = <<>>
    /\ answer' = <<write_comment(input.text, input.prefix)>>
    /\ UNCHANGED <<lib, host, input>>

\* longest_prefix on a list of candidates
apply_longest_prefix ==
    /\ input.fn = "longest_prefix"
    /\ answer = <<>>
    /\ answer' = <<longest_prefix(input.prefixes)>>
    /\ UNCHANGED <<lib, host, input>>

\* answer of a de-indentation is <<prefix, text, prefix, text>>: two passes;
\* the text a pass works on is the input's, then the one the pass before has left
PassText == IF Len(answer) < 2 THEN input.text ELSE answer[2]

\* the prefix of a text, as write_function computes it from the lines of the body
shared_prefix ==
    /\ input.fn = "de_indent"
    /\ Len(answer) \in {0, 2}
    /\ answer' = Append(answer, longest_prefix(filter_map_whitespace_prefix(Lines(PassText))))
    /\ UNCHANGED <<lib, host, input>>

\* write_lines on the text with the prefix just computed
strip_lines ==
    /\ input.fn = "de_indent"
    /\ Len(answer) \in {1, 3}
    /\ answer' = Append(answer, write_lines(PassText, answer[Len(answer)]))
    /\ UNCHANGED <<lib, host, input>>

NextPure ==
    \/ apply_write_comment
    \/ apply_longest_prefix
    \/ shared_prefix
    \/ strip_lines

SpecPure == InitPure /\ [][NextPure]_vars

----------------------------------------------------------------------------
(* Vocabulary of the properties *)

\* number of positions of s at which p occurs
CountSub(s, p) == Cardinality({i \in 1..(Len(s) - Len(p) + 1) : SubSeq(s, i, i + Len(p) - 1) = p})

\* write_module has returned a rendered text
Rendered == pc = "done" /\ result.tag = "Some"

\* the elements between the braces of the function the loop of write_module is at
Inner ==
    LET raw == source.items[item].stmt_list
    IN  SubSeq(raw, 2, Len(raw) - 1)

\* the marker of a comment names it a doc comment: ///, //!, /** or /*!
DocMarker(text) ==
    /\ Len(text) >= 3
    /\ text[3] \in {text[2], "!"}
    /\ ~(Len(text) >= 4 /\ text[4] = "/")

PlainComment(e) == e.nt = "Token" /\ e.kind = "COMMENT" /\ ~DocMarker(e.text)
DocComment(e) == e.nt = "Token" /\ e.kind = "COMMENT" /\ DocMarker(e.text)
WhitespaceToken(e) == e.nt = "Token" /\ e.kind = "WHITESPACE"
Trivia(e) == e.nt = "Token" /\ e.kind \in {"COMMENT", "WHITESPACE"}

\* a statement: a node the parser attached no comment to
Statement(e) == e.nt = "Node" /\ e.children # <<>> /\ ~Trivia(e.children[1])

\* the code text of the children from..to of a node, each with the prefix stripped
CodeText(children, from, to) ==
    Flatten([i \in 1..(to - from + 1) |->
                write_lines(to_string(children[from + i - 1]), prefix)])

StatementText(e) == CodeText(e.children, 1, Len(e.children))

Backquotes == <<BQ, BQ, BQ>>
OpeningMarker == Backquotes \o <<"r", "u", "s", "t", ",", "i", "g", "n", "o", "r", "e">>

\* the walked sequence without a trailing whitespace token
Trimmed ==
    IF stmts # <<>> /\ WhitespaceToken(stmts[Len(stmts)])
    THEN SubSeq(stmts, 1, Len(stmts) - 1) ELSE stmts

----------------------------------------------------------------------------
(* C1: when the source parses without errors and the module has no top-level
   function named exactly body, write_module returns None. *)
NoBodyFunction ==
    \A i \in 1..Len(source.items) :
        ~(source.items[i].kind = "FN" /\ source.items[i].name = "body")

C1_NoBodyGivesNone ==
    (pc = "done" /\ ~source.errors /\ NoBodyFunction) => result = None

\* a module whose only functions have other names has been answered with None
C1_Witness ==
    /\ pc = "done"
    /\ result = None
    /\ Len(source.items) = 2
    /\ source.items[1].kind = "FN" /\ source.items[1].name = "main"
    /\ source.items[2].kind = "FN" /\ source.items[2].name = "Body"

(* C2: a body function whose element sequence is empty once the braces and a
   leading whitespace token are removed renders to the one-character text "\n". *)
C2_EmptyBodyIsNewline ==
    (Rendered /\ (Inner = <<>> \/ (Len(Inner) = 1 /\ WhitespaceToken(Inner[1]))))
        => result.text = <<NL>>

\* the body "{ }" has been rendered
C2_Witness ==
    /\ Rendered
    /\ Len(Inner) = 1 /\ WhitespaceToken(Inner[1])
    /\ result.text = <<NL>>

(* C3: a body made of a plain comment, whitespace and one statement renders
   to the normalized comment text at the start of the output, a blank line,
   the opening fence line, the statement and the closing fence, whatever the
   number of newlines of the whitespace. *)
C3_Shape ==
    /\ Len(Trimmed) = 3
    /\ PlainComment(Trimmed[1])
    /\ WhitespaceToken(Trimmed[2])
    /\ Statement(Trimmed[3])

C3_CommentThenFencedStatement ==
    (Rendered /\ C3_Shape) =>
        result.text = write_comment(Trimmed[1].text, prefix)
                      \o <<NL, NL>> \o OpeningMarker \o <<NL>>
                      \o StatementText(Trimmed[3])
                      \o <<NL>> \o Backquotes \o <<NL>>

\* "// a", a blank line and "x;" have been rendered
C3_Witness ==
    /\ Rendered
    /\ C3_Shape
    /\ Trimmed[1].text = <<"/", "/", SP, "a">>
    /\ CountChar(Trimmed[2].text, NL) = 2
    /\ StartsWith(result.text, <<"a", NL, NL, BQ>>)

(* C4: while a body that consists solely of plain comments and whitespace is
   rendered, the state is Prose after every element and the output holds no
   fence marker. *)
C4_Shape == \A i \in 1..Len(stmts) : PlainComment(stmts[i]) \/ WhitespaceToken(stmts[i])

C4_PlainCommentsStayProse ==
    ((pc = "body" \/ Rendered) /\ C4_Shape) =>
        /\ ~in_code_block
        /\ CountSub(output, Backquotes) = 0

\* "// a", a newline and "//" have been rendered without a fence
C4_Witness ==
    /\ Rendered
    /\ C4_Shape
    /\ Cardinality({i \in 1..Len(stmts) : PlainComment(stmts[i])}) >= 2
    /\ result.text = <<"a", NL, NL>>

(* C5: a body that consists solely of statements (nodes without attached
   comments) and whitespace, with at least one statement, renders to a text
   with exactly one opening and one closing fence, the opening one before the
   first statement and the closing one after the last. *)
C5_Shape ==
    /\ Trimmed # <<>>
    /\ \A i \in 1..Len(stmts) : Statement(stmts[i]) \/ WhitespaceToken(stmts[i])

C5_StatementsInOneFence ==
    (Rendered /\ C5_Shape) =>
        /\ CountSub(result.text, OpeningMarker) = 1
        /\ CountSub(result.text, Backquotes) = 2
        /\ StartsWith(result.text,
               <<NL, NL>> \o OpeningMarker \o <<NL>> \o StatementText(Trimmed[1]))
        /\ EndsWith(result.text,
               StatementText(Trimmed[Len(Trimmed)]) \o <<NL>> \o Backquotes \o <<NL>>)

\* two statements have been rendered in one fence
C5_Witness ==
    /\ Rendered
    /\ C5_Shape
    /\ Cardinality({i \in 1..Len(stmts) : Statement(stmts[i])}) >= 2
    /\ CountSub(result.text, Backquotes) = 2

(* C6: when two statements are separated by a whitespace token, both are
   rendered in the Code state and the output holds, after the text of the
   first, as many newlines as the token has and then the text of the second,
   with nothing else between them. *)
C6_Shape ==
    /\ AtNode
    /\ idx >= 3
    /\ Statement(stmts[idx])
    /\ WhitespaceToken(stmts[idx - 1])
    /\ Statement(stmts[idx - 2])

C6_NewlinesBetweenStatementsKept ==
    C6_Shape =>
        /\ in_code_block
        /\ EndsWith(output,
               StatementText(stmts[idx - 2])
               \o (IF child = 1 THEN <<>>
                   ELSE Repeat(<<NL>>, CountChar(stmts[idx - 1].text, NL))
                        \o CodeText(stmts[idx].children, 1, child - 1)))

\* "x;", a blank line and "x;" have been rendered
C6_Witness ==
    /\ C6_Shape
    /\ child > Len(stmts[idx].children)
    /\ CountChar(stmts[idx - 1].text, NL) = 2
    /\ EndsWith(output, <<"x", ";", NL, NL, "x", ";">>)

\* the leading children of the node being rendered that have been dispatched
Dispatched == {j \in 1..(child - 1) : stmts[idx].children[j].kind = "COMMENT"}
LastDispatched == CHOOSE j \in Dispatched : \A k \in Dispatched : k <= j
InLeadingChildren == AtNode /\ ~broke

(* C7 as stated: once a doc comment among the leading children of a nested
   declaration has been emitted, the fence it is in is still open when the
   declaration's first other child is reached. *)
C7_DocCommentSharesFence ==
    (InLeadingChildren /\ \E j \in Dispatched : DocComment(stmts[idx].children[j]))
        => in_code_block

(* C7 as amended: among the leading children of a nested declaration, a doc
   comment is emitted as code text after the opening fence and leaves the
   state Code, a plain comment is emitted as prose and leaves the state Prose;
   the state then stays so up to the declaration's first other child, so the
   last leading comment decides: a doc comment shares the fence of the
   declaration's code, a plain comment has the fence open after it. *)
C7_LastLeadingCommentDecides ==
    (InLeadingChildren /\ Dispatched # {}) =>
        LET c == stmts[idx].children[LastDispatched]
        IN  /\ in_code_block = DocComment(c)
            /\ (DocComment(c) /\ LastDispatched = child - 1) =>
                   /\ EndsWith(output, write_lines(c.text, prefix))
                   /\ CountSub(output, OpeningMarker)
                          = CountSub(output, Backquotes) - CountSub(output, OpeningMarker) + 1
            /\ (PlainComment(c) /\ LastDispatched = child - 1) =>
                   /\ EndsWith(output, write_comment(c.text, prefix))
                   /\ CountSub(output, OpeningMarker)
                          = CountSub(output, Backquotes) - CountSub(output, OpeningMarker)

\* a function with a doc comment is at its fn keyword, the fence of the comment open
C7_Witness ==
    /\ InLeadingChildren
    /\ child <= Len(stmts[idx].children)
    /\ ~Trivia(stmts[idx].children[child])
    /\ Dispatched # {}
    /\ DocComment(stmts[idx].children[LastDispatched])
    /\ in_code_block
    /\ CountSub(output, <<"/", "/", "/", SP, "d">>) = 1

\* the index of the first child of the node being rendered that is no trivia
FirstCode ==
    CHOOSE k \in 1..Len(stmts[idx].children) :
        /\ ~Trivia(stmts[idx].children[k])
        /\ \A j \in 1..(k - 1) : Trivia(stmts[idx].children[j])

(* C8: from the first non-trivia child of a node to the end of the node the
   state is Code and the output ends with the code text of the children
   emitted so far, comments among and below them included as they are, with
   no fence marker in it. *)
C8_RestOfNodeIsCode ==
    (AtNode /\ broke) =>
        /\ in_code_block
        /\ EndsWith(output, CodeText(stmts[idx].children, FirstCode, child - 1))
        /\ CountSub(CodeText(stmts[idx].children, FirstCode, child - 1), Backquotes) = 0

\* a nested function has been rendered to its end, its inner comments as code
C8_Witness ==
    /\ AtNode /\ broke
    /\ child > Len(stmts[idx].children)
    /\ in_code_block
    /\ EndsWith(output, <<"f", "n", SP, "f", "(", ")", "/", "*", "c", "*", "/", "{", NL>>
                        \o (IF prefix = <<SP, SP>> THEN <<SP, SP>> ELSE <<SP, SP, SP, SP>>)
                        \o <<"/", "/", SP, "i", NL>>
                        \o (IF prefix = <<SP, SP>> THEN <<>> ELSE <<SP, SP>>)
                        \o <<"}">>)

(* C9 as stated: a token of the body that is neither a comment nor whitespace
   leaves the state Code, so its text is inside a fence. *)
C9_TokenEntersCode ==
    (pc = "body" /\ idx > 1 /\ child = 1 /\ stmts[idx - 1].nt = "Token"
        /\ ~Trivia(stmts[idx - 1]))
        => in_code_block

\* the last element of the walked sequence that is not whitespace, 0 if none
LastEmitting ==
    LET S == {i \in 1..Len(stmts) : ~WhitespaceToken(stmts[i])}
    IN  IF S = {} THEN 0 ELSE CHOOSE i \in S : \A j \in S : j <= i

EndsWithOneNewline(text) ==
    /\ text # <<>>
    /\ text[Len(text)] = NL
    /\ (Len(text) >= 2 => text[Len(text) - 1] # NL)

(* C10 as stated: the rendered output ends with exactly one newline. *)
C10_ExactlyOneTrailingNewline == Rendered => EndsWithOneNewline(result.text)

(* C10 as amended: the rendered output always ends with a newline, the one
   write_body appends (after the closing fence when the state is Code); it
   ends with more than one only when the last element emitted is a plain
   comment whose normalized text is empty or ends with a newline. *)
C10_TrailingNewline ==
    Rendered =>
        /\ result.text # <<>>
        /\ result.text[Len(result.text)] = NL
        /\ in_code_block => EndsWith(result.text, <<BQ, NL>>)
        /\ ~EndsWithOneNewline(result.text) =>
               /\ LastEmitting > 0
               /\ PlainComment(stmts[LastEmitting])
               /\ LET t == write_comment(stmts[LastEmitting].text, prefix)
                  IN  t = <<>> \/ t[Len(t)] = NL

\* a block comment that ends with a newline has been rendered: two newlines end the text
C10_Witness ==
    /\ Rendered
    /\ LastEmitting > 0
    /\ stmts[LastEmitting].text = <<"/", "*", "a", NL, SP, SP, "*", "/">>
    /\ EndsWith(result.text, <<"a", NL, NL>>)

----------------------------------------------------------------------------
(* write_function applied to a function named body, whatever its statement list holds *)

LCurly == Token("L_CURLY", <<"{">>)
RCurly == Token("R_CURLY", <<"}">>)

\* a function named body whose statement list has these children
RawFn(raw) ==
    [kind |-> "FN", has_name |-> TRUE, name |-> "body", has_body |-> TRUE, stmt_list |-> raw]

\* children of a statement list that lack a brace, or have them out of place
Undelimited ==
    LET inner == {<<>>, <<ExprStmt>>, <<PlainBlock, Whitespace(0), ExprStmt>>}
    IN  UNION {{b, <<LCurly>> \o b, b \o <<RCurly>>, <<RCurly>> \o b \o <<LCurly>>,
                <<ExprStmt>> \o b \o <<RCurly>>, <<LCurly>> \o b \o <<PlainBlock>>,
                <<LCurly>> \o b \o <<RCurly, Whitespace(0)>>} : b \in inner}

InitRaw ==
    /\ HostIdle
    /\ PureIdle
    /\ \E raw \in {StmtList(b) : b \in Bodies} \cup Undelimited :
           source = [errors |-> FALSE, items |-> <<RawFn(raw)>>]
    /\ pc = "items"
    /\ item = 1
    /\ result = Pending
    /\ stmts = <<>>
    /\ prefix = <<>>
    /\ idx = 1
    /\ child = 1
    /\ broke = FALSE
    /\ output = <<>>
    /\ in_code_block = FALSE
    /\ whitespace = <<>>

NextRaw ==
    \/ write_function
    \/ top_token
    \/ node_trivia
    \/ node_code
    \/ node_rest
    \/ node_end
    \/ finish

SpecRaw == InitRaw /\ [][NextRaw]_vars

----------------------------------------------------------------------------
(* write_module of lib.rs as a function of the parsed module *)

\* write_node_or_token, first loop from child i on, then the second loop
RECURSIVE write_children(_, _, _, _)
write_children(st, children, i, p) ==
    IF i > Len(children) THEN st
    ELSE IF IsTrivia(children[i])
    THEN write_children(write_token(st, children[i], p), children, i + 1, p)
    ELSE LET e == ensure_in_code_block(st.in_code_block, st.whitespace)
         IN  [output |-> st.output \o e.text
                             \o Flatten([k \in 1..(Len(children) - i + 1) |->
                                    write_lines(to_string(children[i + k - 1]), p)]),
              in_code_block |-> e.in_code_block,
              whitespace |-> st.whitespace]

write_node_or_token(st, e, p) ==
    IF e.nt = "Token" THEN write_token(st, e, p)
    ELSE [write_children(st, e.children, 1, p) EXCEPT !.whitespace = <<>>]

RECURSIVE write_elements(_, _, _, _)
write_elements(st, elems, i, p) ==
    IF i > Len(elems) THEN st
    ELSE write_elements(write_node_or_token(st, elems[i], p), elems, i + 1, p)

NewState == [output |-> <<>>, in_code_block |-> FALSE, whitespace |-> <<>>]

write_body(elems, p) ==
    LET st == write_elements(NewState, elems, 1, p)
    IN  st.output \o (IF st.in_code_block THEN FinalFence ELSE <<>>) \o <<NL>>

\* write_function: None, Some(text) or Err
write_function_of(function) ==
    LET raw == function.stmt_list
        n == Len(raw)
        deque == SubSeq(raw, 2, n - 1)
    IN  IF ~function.has_body THEN None
        ELSE IF ~(expect_kind("L_CURLY", n >= 1, raw[1])
                  /\ expect_kind("R_CURLY", n >= 2, raw[n]))
        THEN Err("Unexpected token")
        ELSE Some(write_body(pop_front_whitespace(deque), longest_prefix(ws_prefixes(deque))))

\* the loop of write_module from item i on: the first result that is not None
RECURSIVE write_items(_, _)
write_items(items, i) ==
    IF i > Len(items) THEN None
    ELSE IF ~IsBodyFn(items[i]) THEN write_items(items, i + 1)
    ELSE LET r == write_function_of(items[i])
         IN  IF r = None THEN write_items(items, i + 1) ELSE r

write_module(src) ==
    IF src.errors THEN Err("parse errors") ELSE write_items(src.items, 1)

----------------------------------------------------------------------------
(* The preprocessor of main.rs *)

\* most items of a book
MaxPages == 2

MainOpenFence == <<NL, NL, BQ, BQ, BQ, "r", "u", "s", "t", NL>>

main_ensure_in_code_block(in_code, ws) ==
    [text |-> IF in_code THEN ws ELSE MainOpenFence, in_code_block |-> TRUE]

\* the token branch of write_body
main_write_token(st, token, p) ==
    IF is_comment(token) THEN
        IF is_doc(token.text)
        THEN LET e == main_ensure_in_code_block(st.in_code_block, st.whitespace)
             IN  [output |-> st.output \o e.text \o write_lines(token.text, p),
                  in_code_block |-> e.in_code_block,
                  whitespace |-> <<>>]
        ELSE write_plain_comment(st, token, p)
    ELSE IF is_whitespace(token) THEN write_whitespace(st, token)
    ELSE write_other_token(st, token, p)

\* the node branch of write_body: the whole node is code
main_write_node(st, node, p) ==
    LET e == main_ensure_in_code_block(st.in_code_block, st.whitespace)
    IN  [output |-> st.output \o e.text \o write_lines(to_string(node), p),
         in_code_block |-> e.in_code_block,
         whitespace |-> <<>>]

RECURSIVE main_write_elements(_, _, _, _)
main_write_elements(st, elems, i, p) ==
    IF i > Len(elems) THEN st
    ELSE main_write_elements(IF elems[i].nt = "Node" THEN main_write_node(st, elems[i], p)
                             ELSE main_write_token(st, elems[i], p),
                             elems, i + 1, p)

main_write_body(elems, p) ==
    LET st == main_write_elements(NewState, elems, 1, p)
    IN  st.output \o (IF st.in_code_block THEN FinalFence ELSE <<>>) \o <<NL>>

main_write_function(function) ==
    LET raw == function.stmt_list
        n == Len(raw)
        deque == SubSeq(raw, 2, n - 1)
    IN  IF ~function.has_body THEN None
        ELSE IF ~(expect_kind("L_CURLY", n >= 1, raw[1])
                  /\ expect_kind("R_CURLY", n >= 2, raw[n]))
        THEN Err("Unexpected token")
        ELSE Some(main_write_body(pop_front_whitespace(deque),
                                  longest_prefix(ws_prefixes(deque))))

\* the content of a chapter: the source text it came with, known by its parse,
\* or a text the preprocessor has stored
SourceText(module) == [tag |-> "Source", module |-> module, text |-> <<>>]
RenderedText(text) == [tag |-> "Rendered", module |-> [errors |-> FALSE, items |-> <<>>],
                       text |-> text]

\* the items of a book
Chapter(has_path, extension, content) ==
    [item |-> "Chapter", has_path |-> has_path, extension |-> extension, content |-> content]
Separator == [Chapter(FALSE, "", RenderedText(<<>>)) EXCEPT !.item = "Separator"]
PartTitle == [Chapter(FALSE, "", RenderedText(<<"T">>)) EXCEPT !.item = "PartTitle"]

\* the loop of write_chapter from item i on: content, or the error of write_function
RECURSIVE main_write_items(_, _, _)
main_write_items(content, items, i) ==
    IF i > Len(items) THEN [ok |-> TRUE, content |-> content, error |-> ""]
    ELSE IF ~IsBodyFn(items[i]) THEN main_write_items(content, items, i + 1)
    ELSE LET r == main_write_function(items[i])
         IN  IF r.tag = "Err" THEN [ok |-> FALSE, content |-> content, error |-> r.text[1]]
             ELSE IF r.tag = "Some"
             THEN main_write_items(RenderedText(r.text), items, i + 1)
             ELSE main_write_items(content, items, i + 1)

\* write_chapter not looking at the extension of the path
write_chapter_any_extension(chapter) ==
    IF chapter.has_path
    THEN IF chapter.content.module.errors
         THEN [ok |-> FALSE, content |-> chapter.content, error |-> "parse errors"]
         ELSE main_write_items(chapter.content, chapter.content.module.items, 1)
    ELSE [ok |-> TRUE, content |-> chapter.content, error |-> ""]

\* write_chapter: the content it leaves, or the error it returns
write_chapter(chapter) ==
    IF chapter.has_path /\ chapter.extension = "rs"
    THEN IF chapter.content.module.errors
         THEN [ok |-> FALSE, content |-> chapter.content, error |-> "parse errors"]
         ELSE main_write_items(chapter.content, chapter.content.module.items, 1)
    ELSE [ok |-> TRUE, content |-> chapter.content, error |-> ""]

\* the modules of the pages
Module(items) == [errors |-> FALSE, items |-> items]
PageModules ==
    {Module(<<FnItem("body", <<ExprStmt>>)>>),
     Module(<<FnItem("body", <<Whitespace(1), PlainLine, Whitespace(1)>>)>>),
     Module(<<FnItem("body", <<Whitespace(1), PlainBlock, Whitespace(2), FnPlain, Whitespace(1)>>)>>),
     Module(<<FnItem("body", <<ExprStmt>>), FnItem("body", <<PlainBlock>>)>>),
     Module(<<FnItem("main", <<ExprStmt>>), StructItem("body")>>),
     [errors |-> TRUE, items |-> <<>>]}

Pages ==
    {Chapter(TRUE, "rs", SourceText(m)) : m \in PageModules}
    \cup {Chapter(TRUE, "md", SourceText(Module(<<FnItem("body", <<ExprStmt>>)>>))),
          Chapter(FALSE, "", SourceText(Module(<<FnItem("body", <<ExprStmt>>)>>))),
          Separator, PartTitle}

\* what is on standard input: whether it parses, the version it names, the book
Input(valid, version, items) == [valid |-> valid, version |-> version, book |-> items]

\* the lines of standard error
Line(kind, text) == [kind |-> kind, text |-> text]

InitHost ==
    /\ LibIdle
    /\ PureIdle
    /\ args \in {<<>>, <<"supports", "html">>, <<"supports">>, <<"build", "html">>}
    /\ \E n \in 0..MaxPages : \E items \in [1..n -> Pages] :
           \/ stdin = Input(TRUE, "matching", items)
           \/ n <= 1 /\ \E version \in {"other", "malformed"} : stdin = Input(TRUE, version, items)
           \/ n = 0 /\ stdin = Input(FALSE, "", items)
    /\ book = <<>>
    /\ page = 1
    /\ errors = <<>>
    /\ stdout = <<>>
    /\ stderr = <<>>
    /\ status = -1
    /\ hpc = "main"

\* process::exit
exit(code) ==
    /\ status' = code
    /\ hpc' = "exited"

\* main: the match on the arguments
main ==
    /\ hpc = "main"
    /\ IF Len(args) = 2 /\ args[1] = "supports"
       THEN /\ exit(0)
            /\ UNCHANGED stderr
       ELSE IF args = <<>>
       THEN /\ hpc' = "preprocess"
            /\ UNCHANGED <<status, stderr>>
       ELSE /\ stderr' = Append(stderr, Line("usage", "Invalid arguments"))
            /\ exit(1)
    /\ UNCHANGED <<args, stdin, book, page, errors, stdout>>
    /\ UNCHANGED <<lib, pure>>

\* preprocess up to the loop over the book; an error is printed by main
parse_input ==
    /\ hpc = "preprocess"
    /\ IF ~stdin.valid
       THEN /\ stderr' = Append(stderr, Line("error", "parse_input"))
            /\ exit(1)
            /\ UNCHANGED book
       ELSE IF stdin.version = "malformed"
       THEN /\ stderr' = Append(stderr, Line("error", "Version::parse"))
            /\ exit(1)
            /\ UNCHANGED book
       ELSE /\ stderr' = IF stdin.version = "matching" THEN stderr
                         ELSE Append(stderr, Line("warning", "Warning: MDBook version"))
            /\ book' = stdin.book
            /\ hpc' = "for_each_mut"
            /\ UNCHANGED status
    /\ UNCHANGED <<args, stdin, page, errors, stdout>>
    /\ UNCHANGED <<lib, pure>>

\* the closure of for_each_mut on the item the walk is at
for_each_mut ==
    /\ hpc = "for_each_mut"
    /\ page <= Len(book)
    /\ IF book[page].item = "Chapter"
       THEN LET r == write_chapter(book[page])
            IN  /\ book' = [book EXCEPT ![page].content = r.content]
                /\ errors' = IF r.ok THEN errors ELSE Append(errors, r.error)
       ELSE UNCHANGED <<book, errors>>
    /\ page' = page + 1
    /\ UNCHANGED <<args, stdin, stdout, stderr, status, hpc>>
    /\ UNCHANGED <<lib, pure>>

\* the end of preprocess writing the book whatever the errors
report_ignoring_errors ==
    /\ hpc = "for_each_mut"
    /\ page > Len(book)
    /\ stdout' = Append(stdout, [json |-> book])
    /\ exit(0)
    /\ UNCHANGED <<args, stdin, book, page, errors, stderr>>
    /\ UNCHANGED <<lib, pure>>

\* the end of preprocess and of main: the first error and exit(1), or the book
report ==
    /\ hpc = "for_each_mut"
    /\ page > Len(book)
    /\ IF errors # <<>>
       THEN /\ stderr' = Append(stderr, Line("error", Head(errors)))
            /\ exit(1)
            /\ UNCHANGED stdout
       ELSE /\ stdout' = Append(stdout, [json |-> book])
            /\ exit(0)
            /\ UNCHANGED stderr
    /\ UNCHANGED <<args, stdin, book, page, errors>>
    /\ UNCHANGED <<lib, pure>>

NextHost ==
    \/ main
    \/ parse_input
    \/ for_each_mut
    \/ report

SpecHost == InitHost /\ [][NextHost]_vars

----------------------------------------------------------------------------
(* C11: the comment text normalizer *)

\* what a plain comment holds between its marker and, for a block, its closing marker
CommentBody(text) ==
    IF text[2] = "*" /\ Len(text) >= 4 /\ SubSeq(text, Len(text) - 1, Len(text)) = <<"*", "/">>
    THEN SubSeq(text, 3, Len(text) - 2)
    ELSE SubSeq(text, 3, Len(text))

Normalized == input.fn = "write_comment" /\ answer # <<>>

\* C11: for every plain comment and every prefix, write_comment returns the text
\* after the marker, without the closing marker of a block comment, line by line:
\* the first line without one leading space if it has one (what follows that
\* space is kept, a tab is kept), each later line without the prefix if it
\* starts with it and unchanged otherwise.
C11_CommentNormalized ==
    Normalized =>
        LET from == Split(CommentBody(input.text), NL)
            to == Split(answer[1], NL)
        IN  /\ Len(to) = Len(from)
            /\ to[1] = IF from[1] # <<>> /\ from[1][1] = SP THEN Tail(from[1]) ELSE from[1]
            /\ \A i \in 2..Len(from) :
                   to[i] = IF StartsWith(from[i], input.prefix)
                           THEN SubSeq(from[i], Len(input.prefix) + 1, Len(from[i]))
                           ELSE from[i]

\* a block comment whose first line starts with two spaces and whose second line
\* starts with the prefix has been normalized
C11_Witness ==
    /\ Normalized
    /\ input.text[2] = "*"
    /\ input.prefix # <<>>
    /\ LET from == Split(CommentBody(input.text), NL)
       IN  /\ Len(from) = 2
           /\ StartsWith(from[1], <<SP, SP>>)
           /\ StartsWith(from[2], input.prefix)
           /\ answer[1] = Tail(from[1]) \o <<NL>>
                              \o SubSeq(from[2], Len(input.prefix) + 1, Len(from[2]))

----------------------------------------------------------------------------
(* C16, C17: the shared indentation prefix *)

\* the leading run of spaces and tabs of a line
LeadingRun(line) ==
    LET k == CHOOSE n \in 0..Len(line) :
                 /\ \A i \in 1..n : line[i] \in {SP, TAB}
                 /\ n < Len(line) => line[n + 1] \notin {SP, TAB}
    IN  SubSeq(line, 1, k)

\* the line has a character that is neither a space nor a tab
HasContent(line) == \E i \in 1..Len(line) : line[i] \notin {SP, TAB}

\* the candidates of a text: the leading runs of its lines that have content
LineCandidates(text) ==
    LET lines == Split(text, NL)
    IN  {LeadingRun(lines[i]) : i \in {j \in 1..Len(lines) : HasContent(lines[j])}}

\* p is the longest text that every candidate starts with, the empty text if there is none
LongestCommon(p, cands) ==
    IF cands = {} THEN p = <<>>
    ELSE /\ \A c \in cands : StartsWith(c, p)
         /\ \A c \in cands : \A k \in (Len(p) + 1)..Len(c) :
                \E d \in cands : ~StartsWith(d, SubSeq(c, 1, k))

\* C16: longest_prefix returns, for every list of candidates over space and tab,
\* the longest text that every candidate starts with, the empty text for the
\* empty list; the candidates write_function hands it are the leading space/tab
\* runs of exactly the lines of the body text that have a non-whitespace character.
C16_LongestCommonPrefix ==
    /\ (input.fn = "longest_prefix" /\ answer # <<>>) =>
           LongestCommon(answer[1], {input.prefixes[i] : i \in 1..Len(input.prefixes)})
    /\ (input.fn = "de_indent" /\ Len(answer) >= 1) =>
           LongestCommon(answer[1], LineCandidates(input.text))
    /\ (input.fn = "de_indent" /\ Len(answer) >= 3) =>
           LongestCommon(answer[3], LineCandidates(answer[2]))

\* the prefix of " \tx", a blank line and " x" has been computed: one space
C16_Witness ==
    /\ input.fn = "de_indent"
    /\ input.text = <<SP, TAB, "x", NL, NL, SP, "x">>
    /\ answer = <<(<<SP>>)>>

\* C17: de-indentation is idempotent: once write_lines has stripped the shared
\* prefix, the shared prefix of the stripped text, stripped again, leaves every
\* line as it is.
C17_DeIndentIdempotent ==
    (input.fn = "de_indent" /\ Len(answer) = 4) =>
        /\ answer[4] = answer[2]
        /\ Split(answer[4], NL) = Split(answer[2], NL)

\* two indented lines have been stripped of a shared prefix, twice
C17_Witness ==
    /\ input.fn = "de_indent"
    /\ Len(answer) = 4
    /\ answer[1] # <<>>
    /\ Len(Split(input.text, NL)) = 2
    /\ \A i \in 1..2 : HasContent(Split(input.text, NL)[i])
    /\ Len(answer[2]) = Len(input.text) - 2 * Len(answer[1])

----------------------------------------------------------------------------
(* C18: a plain comment in the Code state and in the Prose state *)

\* the token stmts[idx - 1] of the body has just been dispatched
TokenDispatched ==
    /\ pc = "body"
    /\ idx >= 2
    /\ stmts[idx - 1].nt = "Token"
    /\ idx <= Len(stmts) /\ stmts[idx].nt = "Node" => child = 1

\* the element before stmts[i], a whitespace token between them passed over; 0 if none
Before(i) ==
    IF i - 1 >= 1 /\ ~WhitespaceToken(stmts[i - 1]) THEN i - 1
    ELSE IF i - 2 >= 1 /\ WhitespaceToken(stmts[i - 1]) THEN i - 2
    ELSE 0

\* the newlines of the whitespace token before stmts[i], none without such a token
NewlinesBefore(i) ==
    IF i - 1 >= 1 /\ WhitespaceToken(stmts[i - 1])
    THEN Repeat(<<NL>>, CountChar(stmts[i - 1].text, NL))
    ELSE <<>>

\* C18: a plain comment dispatched in the Code state (after a statement or a doc
\* comment) is emitted after the closing fence and a blank line, the pending
\* whitespace is not emitted, and the state is Prose; dispatched in the Prose
\* state (after a plain comment) it is emitted after the pending whitespace, so
\* two consecutive plain comments are separated by as many newlines as the
\* whitespace token between them has.
C18_PlainCommentLeavesCode ==
    (TokenDispatched /\ PlainComment(stmts[idx - 1]) /\ Before(idx - 1) >= 1) =>
        LET c == write_comment(stmts[idx - 1].text, prefix)
            e == stmts[Before(idx - 1)]
        IN  /\ ~in_code_block
            /\ whitespace = <<>>
            /\ Statement(e) =>
                   EndsWith(output, StatementText(e) \o <<NL>> \o Backquotes \o <<NL, NL>> \o c)
            /\ DocComment(e) =>
                   EndsWith(output, write_lines(e.text, prefix)
                                    \o <<NL>> \o Backquotes \o <<NL, NL>> \o c)
            /\ PlainComment(e) =>
                   EndsWith(output, write_comment(e.text, prefix) \o NewlinesBefore(idx - 1) \o c)

\* "x;", a blank line and a plain comment have been rendered
C18_Witness ==
    /\ TokenDispatched
    /\ idx >= 4
    /\ PlainComment(stmts[idx - 1])
    /\ WhitespaceToken(stmts[idx - 2])
    /\ CountChar(stmts[idx - 2].text, NL) = 2
    /\ Statement(stmts[idx - 3])
    /\ EndsWith(output, <<"x", ";", NL>> \o Backquotes \o <<NL, NL>>
                        \o write_comment(stmts[idx - 1].text, prefix))
    /\ ~in_code_block

----------------------------------------------------------------------------
(* C20: fence balance *)

\* the positions of the fences of a text, and those of them that open a block
Fences(text) == {i \in 1..(Len(text) - 2) : SubSeq(text, i, i + 2) = Backquotes}
Opening(text) ==
    {i \in Fences(text) : i + Len(OpeningMarker) - 1 <= Len(text)
                          /\ SubSeq(text, i, i + Len(OpeningMarker) - 1) = OpeningMarker}
Closing(text) == Fences(text) \ Opening(text)

\* C20: while the body is rendered, the opening fences of the output are one more
\* than its closing fences when in_code_block is true and as many when it is
\* false; in the text returned there are as many closing fences as opening ones
\* and the fences alternate, the first one opening, so they never nest.
Alternating(text) ==
    LET fences == Fences(text)
        opening == Opening(text)
    IN  \A i \in fences : i \in opening <=> Cardinality({j \in fences : j <= i}) % 2 = 1

C20_FenceBalance ==
    /\ pc = "body" =>
           /\ Cardinality(Opening(output)) - Cardinality(Closing(output))
                  = IF in_code_block THEN 1 ELSE 0
    /\ Rendered =>
           /\ Cardinality(Opening(result.text)) = Cardinality(Closing(result.text))
           /\ Alternating(result.text)

\* a second block has been opened after the first one was closed
C20_Witness ==
    /\ pc = "body"
    /\ in_code_block
    /\ Cardinality(Opening(output)) = 2
    /\ Cardinality(Closing(output)) = 1

----------------------------------------------------------------------------
(* C15: render is total *)

\* the children of the statement list render is applied to
Raw == source.items[1].stmt_list

\* the first child is the token "{" and the last one the token "}"
Delimited ==
    /\ Len(Raw) >= 2
    /\ Raw[1] = LCurly
    /\ Raw[Len(Raw)] = RCurly

\* the steps an element takes: one for a token, one for each child of a node and one more
Steps(e) == IF e.nt = "Token" THEN 1 ELSE Len(e.children) + 1

RECURSIVE StepsFrom(_, _)
StepsFrom(elems, i) == IF i > Len(elems) THEN 0 ELSE Steps(elems[i]) + StepsFrom(elems, i + 1)

\* the steps render is from its return
Remaining ==
    IF pc = "done" THEN 0
    ELSE IF pc = "body"
    THEN 1 + StepsFrom(stmts, idx) - (IF idx <= Len(stmts) THEN child - 1 ELSE 0)
    ELSE 2 + StepsFrom(Raw, 1)

\* render has a step to take: write_function on the function, the dispatch of the
\* token or of the child it is at, the end of a node, or the end of write_body
CanStep ==
    \/ pc = "items" /\ item <= Len(source.items) /\ IsBodyFn(source.items[item])
    \/ pc = "body" /\ idx > Len(stmts)
    \/ AtElement /\ stmts[idx].nt = "Token"
    \/ AtChild
    \/ AtNode /\ child > Len(stmts[idx].children)

\* C15: render (write_function, then write_body) is total. It never stops
\* before its return and every step brings the return nearer; a step of
\* write_body goes to the next child of the node it is at or to the next
\* element, so that at the return every element has been dispatched once, in
\* source order; it returns a text when the first and last raw elements are
\* "{" and "}", and fails with the structural error exactly when they are not.
C15_RenderTotal ==
    /\ [](/\ pc # "done" => CanStep
          /\ pc = "done" =>
                 /\ Delimited <=> result.tag = "Some"
                 /\ ~Delimited <=> result = Err("Unexpected token")
                 /\ Delimited => idx = Len(stmts) + 1)
    /\ [][/\ Remaining' < Remaining
          /\ (pc = "body" /\ pc' = "body") =>
                 \/ idx' = idx + 1 /\ child' = 1
                 \/ idx' = idx /\ child' = child + 1 /\ child <= Len(stmts[idx].children)]_vars

\* a body of three elements, a nested function among them, has been rendered
C15_Witness ==
    /\ Rendered
    /\ Delimited
    /\ Len(Raw) = 5
    /\ idx = 4
    /\ \E i \in 1..3 : stmts[i].nt = "Node" /\ stmts[i].kind = "FN"

----------------------------------------------------------------------------
(* C12, C13, C14, C19: the host preprocessor *)

\* standard input held a book and write_chapter has returned for its item i
Processed(i) == hpc \in {"for_each_mut", "exited"} /\ i <= Len(book) /\ i < page

\* item i of the book on standard input is a content page with the rs extension
RsPage(i) ==
    /\ stdin.book[i].item = "Chapter"
    /\ stdin.book[i].has_path
    /\ stdin.book[i].extension = "rs"

\* C12: for every content page with the rs extension the content the host
\* stores is the text write_module of lib.rs returns for the page's original
\* content, whenever that is not None.
C12_HostStoresLibRendering ==
    \A i \in 1..Len(book) :
        (Processed(i) /\ RsPage(i)) =>
            LET r == write_module(stdin.book[i].content.module)
            IN  r.tag = "Some" => book[i].content = RenderedText(r.text)

\* the functions named body, with a block, of the module of page i
BodyFns(i) ==
    LET items == stdin.book[i].content.module.items
    IN  {k \in 1..Len(items) : IsBodyFn(items[k]) /\ items[k].has_body}

\* C13: when the module of a page has more than one top-level function named
\* body, the content the host stores is the rendering of the first of them in
\* source order.
C13_FirstBodyIsStored ==
    \A i \in 1..Len(book) :
        (Processed(i) /\ RsPage(i) /\ ~stdin.book[i].content.module.errors
                      /\ Cardinality(BodyFns(i)) > 1) =>
            LET items == stdin.book[i].content.module.items
                first == items[CHOOSE k \in BodyFns(i) : \A j \in BodyFns(i) : k <= j]
            IN  book[i].content \in {RenderedText(write_function_of(first).text),
                                     RenderedText(main_write_function(first).text)}

\* the pages of the book on standard input that cannot be processed
FailingPages ==
    {i \in 1..Len(stdin.book) : RsPage(i) /\ stdin.book[i].content.module.errors}

\* host-protocol mode, with a book read from standard input
BookRead == args = <<>> /\ stdin.valid /\ stdin.version # "malformed"

ErrorLines == {k \in 1..Len(stderr) : stderr[k].kind = "error"}

\* C14: in host-protocol mode, when the processing of a page fails nothing is
\* written to standard output, the error is printed to the error stream and
\* the process exits with status 1; the book is written to standard output
\* only when every page succeeded.
C14_NoOutputOnFailure ==
    /\ (BookRead /\ FailingPages # {}) =>
           /\ stdout = <<>>
           /\ hpc = "exited" =>
                  /\ status = 1
                  /\ \E k \in ErrorLines : stderr[k].text = "parse errors"
    /\ stdout # <<>> =>
           /\ BookRead
           /\ FailingPages = {}
           /\ stdout = <<[json |-> book]>>
           /\ status = 0

\* the first of two pages has failed, the second one has been rendered, and the
\* process has exited
C14_Witness ==
    /\ BookRead
    /\ hpc = "exited"
    /\ FailingPages = {1}
    /\ Len(book) = 2
    /\ book[2].content.tag = "Rendered"
    /\ stdout = <<>>
    /\ status = 1

\* C19: when pages fail the host still processes every remaining page and, at
\* its end, reports all the errors it has collected, not only the first one.
C19_AllErrorsReported ==
    (BookRead /\ hpc = "exited") =>
        /\ page = Len(book) + 1
        /\ Cardinality(ErrorLines) = Cardinality(FailingPages)

----------------------------------------------------------------------------
(* C21: the code text of a node *)

\* the source text of the children from..to of a node
SourceOf(children, from, to) ==
    Flatten([i \in 1..(to - from + 1) |-> to_string(children[from + i - 1])])

\* a text that starts after the beginning of a source line, the prefix removed
\* where a source line starts in it: after each of its newlines
StripLineStarts(text, p) ==
    LET lines == Split(text, NL)
    IN  Join([i \in 1..Len(lines) |->
                 IF i > 1 /\ StartsWith(lines[i], p)
                 THEN SubSeq(lines[i], Len(p) + 1, Len(lines[i]))
                 ELSE lines[i]], <<NL>>)

\* C21: the code text emitted for a node is the node's source text with the
\* shared prefix removed at the start of source lines and nowhere else: a child
\* that does not begin a source line, such as the spaces between two tokens of
\* one line, is emitted as it is even when it starts with the prefix.
C21_OnlyLineStartsStripped ==
    (AtNode /\ broke) =>
        EndsWith(output,
                 StripLineStarts(SourceOf(stmts[idx].children, FirstCode, child - 1), prefix))

----------------------------------------------------------------------------
(* C22: the pages the host leaves alone *)

\* the source of item i of the book on standard input has a function named body
HasBodyFn(i) ==
    LET items == stdin.book[i].content.module.items
    IN  \E k \in 1..Len(items) : IsBodyFn(items[k])

\* item i is a page without a path, or without the rs extension, or without a
\* function named body, or it is a separator or a part title
LeftAlone(i) ==
    \/ stdin.book[i].item \in {"Separator", "PartTitle"}
    \/ ~stdin.book[i].has_path
    \/ stdin.book[i].extension # "rs"
    \/ ~HasBodyFn(i)

\* C22: the host leaves the content of a page as it is when the page has no
\* path, when its path does not have the rs extension, or when its source has
\* no top-level function named body; separators and part titles are never
\* modified; what is written to standard output holds them as they came.
C22_OtherPagesUnchanged ==
    /\ \A i \in 1..Len(book) : LeftAlone(i) => book[i] = stdin.book[i]
    /\ \A k \in 1..Len(stdout) : \A i \in 1..Len(stdin.book) :
           LeftAlone(i) => stdout[k].json[i] = stdin.book[i]

\* a book of a page without the rs extension whose source has a function named
\* body, and a separator, has been written to standard output
C22_Witness ==
    /\ hpc = "exited"
    /\ stdout # <<>>
    /\ Len(book) = 2
    /\ stdin.book[1].item = "Chapter" /\ stdin.book[1].extension = "md" /\ HasBodyFn(1)
    /\ stdin.book[2].item = "Separator"
    /\ stdout[1].json = stdin.book

====
